---- MODULE Spec2Model ----
(***************************************************************************)
(* The S2 dynamic call router (internal/models/models.go, package router): *)
(* the DID pool and the call ledger kept in MySQL, the two in-memory maps  *)
(* guarded by Router.mu, the cleanup goroutine and the restart path.       *)
(*                                                                         *)
(* Granularity.  ProcessIncomingCall and ProcessReturnCall hold r.mu for   *)
(* their whole body, so at most one of them is in flight: its frame is the *)
(* variable mu.  cleanupStaleCalls takes no lock and issues two SQL        *)
(* statements, so every SQL statement of a handler is a step of its own    *)
(* and the cleanup statements interleave with them.  Map updates are       *)
(* invisible to the cleanup goroutine and are folded into the neighbouring *)
(* SQL step.                                                               *)
(*                                                                         *)
(* Strings that pass through cleanString are sequences of one-character    *)
(* strings; call ids, which are never converted, are plain strings.        *)
(*                                                                         *)
(* Time.  Every test the code makes on a timestamp compares it with NOW()  *)
(* minus an interval, so a timestamp is kept as the number of minutes      *)
(* elapsed since it was taken (time.Now() and NOW() give 0) and Tick ages  *)
(* all of them.  Ages stop growing once no test can tell them apart: a     *)
(* start_time past TTL + 1, an end_time at ReleaseWindow.                  *)
(*                                                                         *)
(* Schema.  createTables issues CREATE TABLE IF NOT EXISTS: a database     *)
(* that had no call_records gets the table of models.go:110-125, which has *)
(* no column updated_at; a table that was there before (the rows of dids   *)
(* are put there by something else, too) is left as it is.  The statement  *)
(* of storeCallRecord assigns updated_at, so MySQL refuses it (unknown     *)
(* column) on every execution against the first kind of table.             *)
(***************************************************************************)
EXTENDS Integers, Sequences, FiniteSets, TLC

VARIABLES
    dids,            \* table dids: did -> [inUse, destination]
    call_records,    \* table call_records: a set of rows
    activeCallsMap,  \* Router.activeCallsMap: CallID -> CallRecord
    didToCallMap,    \* Router.didToCallMap:   DID -> CallID
    mu,              \* the frame of the handler holding Router.mu, or Idle
    reaper,          \* position of the cleanup goroutine
    lastResp,        \* the response last returned, until the next request is taken
    granted,         \* DIDs handed out by successful incoming calls so far
    reaperRan,       \* whether cleanupStaleCalls has run since Init
    hasUpdatedAt,    \* whether table call_records has a column updated_at
    stats            \* the GetStatistics call in flight, or its last result

vars == <<dids, call_records, activeCallsMap, didToCallMap, mu, reaper,
          lastResp, granted, reaperRan, hasUpdatedAt, stats>>

----------------------------------------------------------------------------
(* Bounds and program constants *)

\* Minutes that pass in one step of the clock
ClockStep == 5

TTL == 5

ReleaseWindow == 1

----------------------------------------------------------------------------
(* Values *)

SP == " "
LF == "\n"
CR == "\r"

D1 == <<"7">>
D2 == <<"8">>
PoolDIDs == {D1, D2}

A1 == <<"1">>
A2 == <<"2">>
N1 == <<"5">>
N2 == <<SP, "6">>


\* (callID, ani, dnis) of the incoming requests; c1 may come back with
\* another identity.
IncomingRequests ==
    { <<"c1", A1, N1>>, <<"c2", A2, N2>> }

\* (ani2, did) of the return requests, as they arrive from the transport.
ReturnANIs == {N1, N2}
ReturnDIDs == {D1, D2, <<"7", LF>>}

CallStateActive    == "ACTIVE"
CallStateForwarded == "FORWARDED_TO_S3"
CallStateReturned  == "RETURNED_FROM_S3"
CallStateCompleted == "COMPLETED_AT_S4"
CallStateFailed    == "FAILED"

NonTerminal == {CallStateActive, CallStateForwarded, CallStateReturned}
Terminal    == {CallStateCompleted, CallStateFailed}

NoTime == -1           \* SQL NULL in end_time
NoDestination == <<>>  \* SQL NULL in dids.destination
NoDID == <<>>
NoCall == ""

NoRecord ==
    [callID |-> NoCall, originalANI |-> <<>>, originalDNIS |-> <<>>,
     assignedDID |-> NoDID, status |-> ""]

Idle ==
    [op |-> "none", pc |-> "", callID |-> NoCall, ani |-> <<>>, dnis |-> <<>>,
     did |-> NoDID, record |-> NoRecord]

NoResp ==
    [op |-> "none", callID |-> NoCall, ani |-> <<>>, dnis |-> <<>>, did |-> NoDID,
     status |-> "none", error |-> "", didAssigned |-> NoDID, nextHop |-> "",
     aniToSend |-> <<>>, dnisToSend |-> <<>>]

----------------------------------------------------------------------------
(* cleanString *)

IsSpace(c) == c \in {SP, LF, CR, "\t"}

RECURSIVE TrimLeft(_)
TrimLeft(s) ==
    IF s # <<>> /\ IsSpace(Head(s)) THEN TrimLeft(Tail(s)) ELSE s

RECURSIVE TrimRight(_)
TrimRight(s) ==
    IF s # <<>> /\ IsSpace(s[Len(s)]) THEN TrimRight(SubSeq(s, 1, Len(s) - 1)) ELSE s

TrimSpace(s) == TrimRight(TrimLeft(s))

IsNotLineBreak(c) == c \notin {LF, CR}

cleanString(s) == SelectSeq(TrimSpace(s), IsNotLineBreak)

----------------------------------------------------------------------------
(* SQL statements, as functions of the tables *)

\* (mutant) the SELECT without its WHERE in_use = 0
getAvailableDID_AnyDID(d) == DOMAIN d

\* SELECT did FROM dids WHERE in_use = 0: the candidates of ORDER BY RAND() LIMIT 1
getAvailableDID(d) == {x \in DOMAIN d : ~d[x].inUse}

\* (mutant) the UPDATE sets the destination and forgets in_use
markDIDInUse_DestinationOnly(d, did, destination) ==
    [x \in DOMAIN d |->
        IF x = did THEN [inUse |-> d[x].inUse, destination |-> destination] ELSE d[x]]

\* UPDATE dids SET in_use = 1, destination = ? WHERE did = ?
markDIDInUse(d, did, destination) ==
    [x \in DOMAIN d |->
        IF x = did THEN [inUse |-> TRUE, destination |-> destination] ELSE d[x]]

\* UPDATE dids SET in_use = 0, destination = NULL WHERE did = ?  (no caller)
releaseDID(d, did) ==
    [x \in DOMAIN d |->
        IF x = did THEN [inUse |-> FALSE, destination |-> NoDestination] ELSE d[x]]

\* INSERT ... ON DUPLICATE KEY UPDATE status, assigned_did, updated_at
\* (call_id is UNIQUE); an error when the table has no column updated_at
storeCallRecord(cr, record) ==
    IF ~hasUpdatedAt
    THEN cr
    ELSE IF \E r \in cr : r.callID = record.callID
    THEN { IF r.callID = record.callID
           THEN [r EXCEPT !.status = record.status,
                          !.assignedDID = record.assignedDID]
           ELSE r : r \in cr }
    ELSE cr \cup { [callID |-> record.callID,
                    originalANI |-> record.originalANI,
                    originalDNIS |-> record.originalDNIS,
                    assignedDID |-> record.assignedDID,
                    status |-> record.status,
                    sinceStart |-> 0,
                    sinceEnd |-> NoTime] }

\* UPDATE call_records SET status = ?, end_time = CASE ... WHERE call_id = ?
updateCallStatus(cr, callID, status) ==
    { IF r.callID = callID
      THEN [r EXCEPT !.status = status,
                     !.sinceEnd = IF status \in Terminal THEN 0 ELSE r.sinceEnd]
      ELSE r : r \in cr }

\* status IN (non-terminal) AND start_time > DATE_SUB(NOW(), INTERVAL 5 MINUTE)
IsActiveRow(r) == r.status \in NonTerminal /\ r.sinceStart < TTL

\* The row as scanned into a models.CallRecord
ScanRecord(r) ==
    [callID |-> r.callID, originalANI |-> r.originalANI,
     originalDNIS |-> r.originalDNIS, assignedDID |-> r.assignedDID,
     status |-> r.status]

\* (mutant) the SELECT without its tests of status and start_time
getCallRecordByDID_AnyRow(cr, did) ==
    LET hits == {r \in cr : r.assignedDID = did}
    IN  {ScanRecord(r) :
            r \in {h \in hits : \A o \in hits : h.sinceStart <= o.sinceStart}}

\* getCallRecordByDID: the rows that ORDER BY start_time DESC LIMIT 1 may return
getCallRecordByDID(cr, did) ==
    LET hits == {r \in cr : r.assignedDID = did /\ IsActiveRow(r)}
    IN  {ScanRecord(r) :
            r \in {h \in hits : \A o \in hits : h.sinceStart <= o.sinceStart}}

\* restoreActiveCalls: the rows of its query
restoreActiveCalls(cr) == {r \in cr : IsActiveRow(r)}

\* cleanupStaleCalls, first statement: the rows its WHERE selects
\* (start_time < DATE_SUB(NOW(), INTERVAL 5 MINUTE))
StaleCalls(cr) ==
    {r \in cr : r.status \in {CallStateActive, CallStateForwarded}
                /\ r.sinceStart > TTL}

\* ... SET status = 'FAILED', end_time = NOW()
cleanupStaleCalls(cr) ==
    { IF r \in StaleCalls(cr)
      THEN [r EXCEPT !.status = CallStateFailed, !.sinceEnd = 0]
      ELSE r : r \in cr }

\* cleanupStaleCalls, second statement: the DIDs joined to a row with
\* status = 'FAILED' AND end_time > DATE_SUB(NOW(), INTERVAL 1 MINUTE)
RecentlyFailedDIDs(cr) ==
    {r.assignedDID : r \in {x \in cr : /\ x.status = CallStateFailed
                                      /\ x.sinceEnd # NoTime
                                      /\ x.sinceEnd < ReleaseWindow}}

\* ... SET d.in_use = 0, d.destination = NULL
releaseStaleDIDs(d, cr) ==
    [x \in DOMAIN d |->
        IF x \in RecentlyFailedDIDs(cr)
        THEN [inUse |-> FALSE, destination |-> NoDestination]
        ELSE d[x]]

----------------------------------------------------------------------------
\* No statistics asked for yet
NoStats == [pc |-> "idle", active_calls |-> 0, memory_calls |-> {}]

(* Map helpers *)

Put(m, k, v) == [x \in DOMAIN m \cup {k} |-> IF x = k THEN v ELSE m[x]]

EmptyMap == [x \in {} |-> NoCall]

----------------------------------------------------------------------------
Init ==
    /\ dids = [x \in PoolDIDs |-> [inUse |-> FALSE, destination |-> NoDestination]]
    /\ call_records = {}
    /\ activeCallsMap = EmptyMap
    /\ didToCallMap = EmptyMap
    /\ mu = Idle
    /\ reaper = "idle"
    /\ lastResp = NoResp
    /\ granted = <<>>
    /\ reaperRan = FALSE
    /\ hasUpdatedAt \in BOOLEAN
    /\ stats = NoStats

----------------------------------------------------------------------------
(* Responses *)

\* (mutant) the response sends the dnis normalised
IncomingResponse_Cleaned(callID, ani, dnis, did) ==
    [op |-> "incoming", callID |-> callID, ani |-> ani, dnis |-> dnis, did |-> NoDID,
     status |-> "success", error |-> "", didAssigned |-> did, nextHop |-> "trunk-s3",
     aniToSend |-> cleanString(dnis), dnisToSend |-> did]

\* models.CallResponse of ProcessIncomingCall
IncomingResponse(callID, ani, dnis, did) ==
    [op |-> "incoming", callID |-> callID, ani |-> ani, dnis |-> dnis, did |-> NoDID,
     status |-> "success", error |-> "", didAssigned |-> did, nextHop |-> "trunk-s3",
     aniToSend |-> dnis, dnisToSend |-> did]

\* (mutant) an ani2 that is not the record's originalDNIS is refused
ReturnResponse_Strict(ani2, did, record) ==
    [op |-> "return", callID |-> record.callID, ani |-> ani2, dnis |-> <<>>, did |-> did,
     status |-> IF cleanString(ani2) = record.originalDNIS THEN "success" ELSE "error",
     error |-> IF cleanString(ani2) = record.originalDNIS THEN "" ELSE "ANI mismatch",
     didAssigned |-> NoDID, nextHop |-> "trunk-s4",
     aniToSend |-> record.originalANI, dnisToSend |-> record.originalDNIS]

\* models.CallResponse of ProcessReturnCall; ani2 and did are the raw inputs
ReturnResponse(ani2, did, record) ==
    [op |-> "return", callID |-> record.callID, ani |-> ani2, dnis |-> <<>>, did |-> did,
     status |-> "success", error |-> "", didAssigned |-> NoDID, nextHop |-> "trunk-s4",
     aniToSend |-> record.originalANI, dnisToSend |-> record.originalDNIS]

ErrorResponse(op, callID, ani, dnis, did, err) ==
    [op |-> op, callID |-> callID, ani |-> ani, dnis |-> dnis, did |-> did,
     status |-> "error", error |-> err, didAssigned |-> NoDID, nextHop |-> "",
     aniToSend |-> <<>>, dnisToSend |-> <<>>]

\* (mutant) the record stores the two numbers the wrong way round
NewCallRecord_Swapped(callID, ani, dnis, did) ==
    [callID |-> callID, originalANI |-> dnis, originalDNIS |-> ani,
     assignedDID |-> did, status |-> CallStateActive]

\* The record ProcessIncomingCall builds (StartTime: time.Now())
NewCallRecord(callID, ani, dnis, did) ==
    [callID |-> callID, originalANI |-> ani, originalDNIS |-> dnis,
     assignedDID |-> did, status |-> CallStateActive]

\* History of the DIDs handed out, kept until the cleanup first runs
Grant(did) ==
    IF reaperRan \/ Len(granted) > Cardinality(PoolDIDs)
    THEN granted
    ELSE Append(granted, did)

----------------------------------------------------------------------------
(* ProcessIncomingCall *)

\* r.mu.Lock(); did, err := r.getAvailableDID()
IncomingGetDID(callID, ani, dnis) ==
    /\ mu.op = "none"
    /\ IF getAvailableDID(dids) = {}
       THEN /\ lastResp' = ErrorResponse("incoming", callID, ani, dnis, NoDID,
                                         "no available DIDs")
            /\ mu' = Idle
       ELSE /\ \E d \in getAvailableDID(dids) :
                 mu' = [Idle EXCEPT !.op = "incoming", !.pc = "markDIDInUse",
                                    !.callID = callID, !.ani = ani, !.dnis = dnis,
                                    !.did = d]
            /\ lastResp' = NoResp
    /\ UNCHANGED <<hasUpdatedAt, stats, dids, call_records, activeCallsMap, didToCallMap, reaper,
                   granted, reaperRan>>

\* r.markDIDInUse(did, dnis); record := ...; the two map stores
IncomingMark ==
    /\ mu.op = "incoming" /\ mu.pc = "markDIDInUse"
    /\ dids' = markDIDInUse(dids, mu.did, mu.dnis)
    /\ LET record == NewCallRecord(mu.callID, mu.ani, mu.dnis, mu.did)
       IN  /\ activeCallsMap' = Put(activeCallsMap, mu.callID, record)
           /\ didToCallMap' = Put(didToCallMap, mu.did, mu.callID)
           /\ mu' = [mu EXCEPT !.pc = "storeCallRecord", !.record = record]
    /\ UNCHANGED <<hasUpdatedAt, stats, call_records, reaper, lastResp, granted, reaperRan>>

\* (mutant) an error of storeCallRecord ends the call with that error
IncomingStore_ReturnsError ==
    /\ mu.op = "incoming" /\ mu.pc = "storeCallRecord"
    /\ call_records' = storeCallRecord(call_records, mu.record)
    /\ IF hasUpdatedAt
       THEN mu' = [mu EXCEPT !.pc = "updateCallStatus"] /\ UNCHANGED lastResp
       ELSE /\ mu' = Idle
            /\ lastResp' = ErrorResponse("incoming", mu.callID, mu.ani, mu.dnis,
                                         <<>>, "failed to store call record")
    /\ UNCHANGED <<hasUpdatedAt, stats, dids, activeCallsMap, didToCallMap, reaper,
                   granted, reaperRan>>

\* r.storeCallRecord(record)
IncomingStore ==
    /\ mu.op = "incoming" /\ mu.pc = "storeCallRecord"
    /\ call_records' = storeCallRecord(call_records, mu.record)
    /\ mu' = [mu EXCEPT !.pc = "updateCallStatus"]
    /\ UNCHANGED <<hasUpdatedAt, stats, dids, activeCallsMap, didToCallMap, reaper, lastResp,
                   granted, reaperRan>>

\* r.updateCallStatus(callID, FORWARDED); return response
IncomingForward ==
    /\ mu.op = "incoming" /\ mu.pc = "updateCallStatus"
    /\ call_records' = updateCallStatus(call_records, mu.callID, CallStateForwarded)
    /\ lastResp' = IncomingResponse(mu.callID, mu.ani, mu.dnis, mu.did)
    /\ granted' = Grant(mu.did)
    /\ mu' = Idle
    /\ UNCHANGED <<hasUpdatedAt, stats, dids, activeCallsMap, didToCallMap, reaper, reaperRan>>

----------------------------------------------------------------------------
(* ProcessReturnCall *)

\* cleanString(did), the lookup in didToCallMap, the fallback to the database
\* (which restores the record to memory) and the lookup in activeCallsMap,
\* on the maps dmap, amap and the table cr: every way the lookup can end.
Resolve(dmap, amap, cr, rawDID) ==
    LET did == cleanString(rawDID)
        out(ok, err, callID, record, am, dm) ==
            [ok |-> ok, error |-> err, callID |-> callID, record |-> record,
             activeCallsMap |-> am, didToCallMap |-> dm]
    IN  IF did \in DOMAIN dmap
        THEN IF dmap[did] \in DOMAIN amap
             THEN {out(TRUE, "", dmap[did], amap[dmap[did]], amap, dmap)}
             ELSE {out(FALSE, "call record not found", dmap[did], NoRecord, amap, dmap)}
        ELSE IF getCallRecordByDID(cr, did) = {}
        THEN {out(FALSE, "no active call for DID", NoCall, NoRecord, amap, dmap)}
        ELSE {out(TRUE, "", record.callID, record,
                  Put(amap, record.callID, record), Put(dmap, did, record.callID)) :
                record \in getCallRecordByDID(cr, did)}

\* r.mu.Lock(); the lookup; an error returns at once
ReturnResolve(ani2, rawDID) ==
    /\ mu.op = "none"
    /\ \E o \in Resolve(didToCallMap, activeCallsMap, call_records, rawDID) :
          /\ activeCallsMap' = o.activeCallsMap
          /\ didToCallMap' = o.didToCallMap
          /\ IF o.ok
             THEN /\ mu' = [Idle EXCEPT !.op = "return", !.pc = "updateCallStatus",
                                        !.ani = ani2, !.did = rawDID,
                                        !.callID = o.callID, !.record = o.record]
                  /\ UNCHANGED lastResp
             ELSE /\ mu' = Idle
                  /\ lastResp' = ErrorResponse("return", o.callID, ani2, <<>>, rawDID,
                                               o.error)
    /\ UNCHANGED <<hasUpdatedAt, stats, dids, call_records, reaper, granted, reaperRan>>

\* r.mu.Lock(); the DID is not in didToCallMap and the query of
\* getCallRecordByDID ends in an error other than "no rows": the same return
ReturnReadFails(ani2, rawDID) ==
    /\ mu.op = "none"
    /\ cleanString(rawDID) \notin DOMAIN didToCallMap
    /\ lastResp' = ErrorResponse("return", NoCall, ani2, <<>>, rawDID,
                                 "no active call for DID")
    /\ UNCHANGED <<hasUpdatedAt, stats, dids, call_records, activeCallsMap, didToCallMap,
                   mu, reaper, granted, reaperRan>>

\* (mutant) the return call ends the binding: the DID is released and its
\* entry leaves didToCallMap
ReturnUpdate_Consumes ==
    /\ mu.op = "return" /\ mu.pc = "updateCallStatus"
    /\ call_records' = updateCallStatus(call_records, mu.callID, CallStateReturned)
    /\ dids' = releaseDID(dids, mu.record.assignedDID)
    /\ didToCallMap' = [d \in DOMAIN didToCallMap \ {cleanString(mu.did)} |->
                          didToCallMap[d]]
    /\ lastResp' = ReturnResponse(mu.ani, mu.did, mu.record)
    /\ mu' = Idle
    /\ UNCHANGED <<hasUpdatedAt, stats, activeCallsMap, reaper, granted, reaperRan>>

\* r.updateCallStatus(callID, RETURNED); return response
ReturnUpdate ==
    /\ mu.op = "return" /\ mu.pc = "updateCallStatus"
    /\ call_records' = updateCallStatus(call_records, mu.callID, CallStateReturned)
    /\ lastResp' = ReturnResponse(mu.ani, mu.did, mu.record)
    /\ mu' = Idle
    /\ UNCHANGED <<hasUpdatedAt, stats, dids, activeCallsMap, didToCallMap, reaper, granted, reaperRan>>

----------------------------------------------------------------------------
(* cleanupRoutine / cleanupStaleCalls *)

\* A tick of the ticker: the first UPDATE; rows > 0 leads to the second
CleanupTick ==
    /\ reaper = "idle"
    /\ call_records' = cleanupStaleCalls(call_records)
    /\ reaper' = IF StaleCalls(call_records) # {} THEN "release" ELSE "idle"
    /\ reaperRan' = TRUE
    /\ granted' = <<>>
    /\ UNCHANGED <<hasUpdatedAt, stats, dids, activeCallsMap, didToCallMap, mu, lastResp>>

\* The second UPDATE: release the DIDs of the recently failed calls
CleanupRelease ==
    /\ reaper = "release"
    /\ dids' = releaseStaleDIDs(dids, call_records)
    /\ reaper' = "idle"
    /\ UNCHANGED <<hasUpdatedAt, stats, call_records, activeCallsMap, didToCallMap, mu, lastResp,
                   granted, reaperRan>>

----------------------------------------------------------------------------
(* Process restart: NewRouter builds empty maps and runs restoreActiveCalls. *)
(* The handler in flight and the cleanup goroutine die with the old process. *)

\* The didToCallMap restoreActiveCalls leaves; rows come in no stated order,
\* so a DID held by several rows ends up mapped to any one of them.
RestoredDidMaps(rows) ==
    {m \in [{r.assignedDID : r \in rows} -> {r.callID : r \in rows}] :
        \A d \in DOMAIN m : \E r \in rows : r.assignedDID = d /\ r.callID = m[d]}

\* The activeCallsMap it leaves (call_id is UNIQUE)
RestoredCallsMap(rows) ==
    [c \in {r.callID : r \in rows} |->
        ScanRecord(CHOOSE r \in rows : r.callID = c)]

NewRouter ==
    /\ LET rows == restoreActiveCalls(call_records)
       IN  /\ activeCallsMap' = RestoredCallsMap(rows)
           /\ didToCallMap' \in RestoredDidMaps(rows)
    /\ mu' = Idle
    /\ reaper' = "idle"
    /\ lastResp' = NoResp
    /\ stats' = NoStats
    /\ UNCHANGED <<hasUpdatedAt, dids, call_records, granted, reaperRan>>

\* NewRouter when the query of restoreActiveCalls fails: a warning is logged
\* and the router starts with both maps empty
NewRouterRestoreFails ==
    /\ activeCallsMap' = EmptyMap
    /\ didToCallMap' = EmptyMap
    /\ mu' = Idle
    /\ reaper' = "idle"
    /\ lastResp' = NoResp
    /\ stats' = NoStats
    /\ UNCHANGED <<hasUpdatedAt, dids, call_records, granted, reaperRan>>

----------------------------------------------------------------------------
(* The clock: ClockStep minutes pass.  A handler runs a handful of SQL       *)
(* statements and a cleanup run two, so no clock step falls inside one;     *)
(* records in memory keep no StartTime here, as nothing but                 *)
(* storeCallRecord, at once, reads it.                                      *)

Older(a) == IF a > TTL THEN a ELSE a + ClockStep

OlderEnd(a) == IF a = NoTime \/ a >= ReleaseWindow THEN a ELSE a + ClockStep

Tick ==
    /\ mu.op = "none"
    /\ reaper = "idle"
    /\ call_records' = {[r EXCEPT !.sinceStart = Older(r.sinceStart),
                                  !.sinceEnd = OlderEnd(r.sinceEnd)] : r \in call_records}
    /\ UNCHANGED <<hasUpdatedAt, stats, dids, activeCallsMap, didToCallMap, mu, reaper, lastResp,
                   granted, reaperRan>>

----------------------------------------------------------------------------
(* GetStatistics: the count under one RLock, the database queries, the list *)
(* under another RLock.  RLock waits while a handler holds the lock.        *)

\* r.mu.RLock(); activeCalls := len(r.activeCallsMap); r.mu.RUnlock()
StatsCount ==
    /\ stats.pc # "queries"
    /\ mu.op = "none"
    /\ stats' = [pc |-> "queries",
                 active_calls |-> Cardinality(DOMAIN activeCallsMap),
                 memory_calls |-> {}]
    /\ UNCHANGED <<hasUpdatedAt, dids, call_records, activeCallsMap, didToCallMap,
                   mu, reaper, lastResp, granted, reaperRan>>

\* the two SELECTs; r.mu.RLock(); range r.activeCallsMap; r.mu.RUnlock()
StatsList ==
    /\ stats.pc = "queries"
    /\ mu.op = "none"
    /\ stats' = [stats EXCEPT !.pc = "done",
                              !.memory_calls = {activeCallsMap[c].callID :
                                                  c \in DOMAIN activeCallsMap}]
    /\ UNCHANGED <<hasUpdatedAt, dids, call_records, activeCallsMap, didToCallMap,
                   mu, reaper, lastResp, granted, reaperRan>>

GetStatistics ==
    \/ StatsCount
    \/ StatsList

----------------------------------------------------------------------------
\* The statements of ProcessIncomingCall after the first
IncomingRest ==
    \/ IncomingMark
    \/ IncomingStore
    \/ IncomingForward

ProcessIncomingCall ==
    \/ \E q \in IncomingRequests : IncomingGetDID(q[1], q[2], q[3])
    \/ IncomingRest

ProcessReturnCall ==
    \/ \E a \in ReturnANIs, d \in ReturnDIDs : ReturnResolve(a, d)
    \/ \E a \in ReturnANIs, d \in ReturnDIDs : ReturnReadFails(a, d)
    \/ ReturnUpdate

cleanupRoutine ==
    \/ CleanupTick
    \/ CleanupRelease

Next ==
    \/ ProcessIncomingCall
    \/ ProcessReturnCall
    \/ cleanupRoutine
    \/ NewRouter
    \/ NewRouterRestoreFails
    \/ Tick

Spec == Init /\ [][Next]_vars

\* The same router when a call id comes back with other numbers.
ReuseRequests == { <<"c1", A1, N1>>, <<"c1", A2, N2>> }

NextReuse ==
    \/ \E q \in ReuseRequests : IncomingGetDID(q[1], q[2], q[3])
    \/ IncomingRest
    \/ ProcessReturnCall
    \/ cleanupRoutine
    \/ NewRouter
    \/ NewRouterRestoreFails
    \/ Tick

SpecReuse == Init /\ [][NextReuse]_vars

\* The router of one process that stays up, with the scheduling the runtime
\* gives: a handler that holds the lock runs on, the ticker keeps firing and
\* the cleanup it starts runs on, and time passes.
NextLive ==
    \/ ProcessIncomingCall
    \/ ProcessReturnCall
    \/ cleanupRoutine
    \/ Tick

SpecLive ==
    /\ Init
    /\ [][NextLive]_vars
    /\ WF_vars(IncomingRest)
    /\ WF_vars(ReturnUpdate)
    /\ WF_vars(cleanupRoutine)
    /\ WF_vars(Tick)

\* The router with the statistics endpoint in use, in one process.
NextStats ==
    \/ ProcessIncomingCall
    \/ ProcessReturnCall
    \/ GetStatistics

SpecStats == Init /\ [][NextStats]_vars

----------------------------------------------------------------------------
(* Shorthands of the properties *)

AllInUse == \A d \in DOMAIN dids : dids[d].inUse

RowsOf(cr, callID) == {r \in cr : r.callID = callID}

Succeeded(resp, op) == resp.op = op /\ resp.status = "success"

\* The request that carries the call id (one per call id in IncomingRequests)
RequestOf(callID) == CHOOSE q \in IncomingRequests : q[1] = callID

----------------------------------------------------------------------------
\* C1: while the cleanup has not run since the start (all DIDs free), the
\* incoming calls that succeeded are at most as many as the pool has DIDs and
\* no two of them were given the same DID.
C1_DistinctDIDs ==
    ~reaperRan =>
        /\ Len(granted) <= Cardinality(PoolDIDs)
        /\ \A i, j \in 1..Len(granted) : i # j => granted[i] # granted[j]

\* The pool is exhausted by successful calls and a further call was refused.
C1_Witness ==
    /\ ~reaperRan
    /\ Len(granted) = Cardinality(PoolDIDs)
    /\ lastResp.op = "incoming" /\ lastResp.status = "error"

\* C2: at most one ledger record with a non-terminal status has a given DID
\* as its assignedDID.
C2_OneHolderPerDID ==
    \A r1, r2 \in call_records :
        (/\ r1.status \in NonTerminal
         /\ r2.status \in NonTerminal
         /\ r1.assignedDID = r2.assignedDID) => r1.callID = r2.callID

\* C3: a successful ProcessIncomingCall(callID, ani, dnis) that returned DID d,
\* followed by ProcessReturnCall(dnis, d) as the next request, makes that
\* call succeed with aniToSend = ani and dnisToSend = dnis.
C3_RoundTrip ==
    [][ (/\ Succeeded(lastResp, "incoming")
         /\ lastResp'.op = "return"
         /\ lastResp'.ani = lastResp.dnis
         /\ lastResp'.did = lastResp.didAssigned)
        => (/\ lastResp'.status = "success"
            /\ lastResp'.aniToSend = lastResp.ani
            /\ lastResp'.dnisToSend = lastResp.dnis) ]_vars

\* A return call answered with the identity of the record the incoming call
\* made (records read back from the ledger are never ACTIVE), asked with that
\* call's dnis and DID, the dnis being one that cleanString would alter.
C3_Witness ==
    /\ Succeeded(lastResp, "return")
    /\ lastResp.callID \in DOMAIN activeCallsMap
    /\ LET record == activeCallsMap[lastResp.callID]
       IN  /\ record.status = CallStateActive
           /\ lastResp.ani = record.originalDNIS
           /\ lastResp.did = record.assignedDID
           /\ lastResp.aniToSend = record.originalANI
           /\ lastResp.dnisToSend = record.originalDNIS
           /\ cleanString(record.originalDNIS) # record.originalDNIS

\* C4: a successful ProcessIncomingCall answers with aniToSend equal to its
\* dnis as given, and with dnisToSend and didAssigned both equal to the DID
\* taken from the pool and bound to this call.
C4_IncomingResponse ==
    [][ IncomingForward
        => (/\ lastResp'.status = "success"
            /\ lastResp'.aniToSend = mu.dnis
            /\ lastResp'.dnisToSend = mu.did
            /\ lastResp'.didAssigned = mu.did
            /\ mu.did \in PoolDIDs
            /\ activeCallsMap[mu.callID].assignedDID = mu.did
            /\ didToCallMap[mu.did] = mu.callID) ]_vars

\* A success whose dnis is one that cleanString would alter.
C4_Witness ==
    /\ Succeeded(lastResp, "incoming")
    /\ lastResp.aniToSend = lastResp.dnis
    /\ cleanString(lastResp.dnis) # lastResp.dnis
    /\ lastResp.dnisToSend = lastResp.didAssigned
    /\ lastResp.didAssigned \in PoolDIDs

\* C5: ProcessIncomingCall taken up when no DID of the pool is free fails with
\* "no available DIDs" and changes neither table nor map.
C5_NoAvailableDID ==
    [][ (AllInUse /\ \E q \in IncomingRequests : IncomingGetDID(q[1], q[2], q[3]))
        => (/\ lastResp'.op = "incoming"
            /\ lastResp'.status = "error"
            /\ lastResp'.error = "no available DIDs"
            /\ mu'.op = "none"
            /\ UNCHANGED <<dids, call_records, activeCallsMap, didToCallMap>>) ]_vars

\* The refusal, with the pool exhausted and a call id that has no record.
C5_Witness ==
    /\ lastResp.op = "incoming" /\ lastResp.status = "error"
    /\ lastResp.error = "no available DIDs"
    /\ AllInUse
    /\ RowsOf(call_records, lastResp.callID) = {}
    /\ lastResp.callID \notin DOMAIN activeCallsMap

\* C6: one run of the cleanup turns every record that is non-terminal and
\* older than the TTL into FAILED, and leaves the DID of every record it has
\* just failed with inUse = false.
C6_ReaperExpires ==
    [][ /\ CleanupTick =>
              \A r \in call_records :
                  (r.status \in NonTerminal /\ r.sinceStart > TTL)
                  => \A n \in RowsOf(call_records', r.callID) : n.status = CallStateFailed
        /\ CleanupRelease =>
              \A r \in call_records :
                  (r.status = CallStateFailed /\ r.sinceEnd = 0)
                  => ~dids'[r.assignedDID].inUse ]_vars

\* C7: a DID that is in use is eventually not in use.
C7_EventuallyReleased ==
    \A d \in PoolDIDs : [](dids[d].inUse => <>(~dids[d].inUse))

\* What ProcessReturnCall(did) would answer on the given maps and table
ReturnAnswers(dmap, amap, cr, did) ==
    {<<o.ok, o.record.originalANI, o.record.originalDNIS>> :
        o \in Resolve(dmap, amap, cr, did)}

\* C8: after a restart, for every ledger record that is non-terminal and
\* within the TTL, a return call for its assignedDID succeeds with the
\* record's originalANI and originalDNIS, as it would have before the restart
\* (when the lock was free, so that a return call could have been served).
C8_RestartRestores ==
    [][ NewRouter =>
          \A r \in call_records :
              (r.status \in NonTerminal /\ r.sinceStart < TTL)
              => LET before == ReturnAnswers(didToCallMap, activeCallsMap,
                                             call_records, r.assignedDID)
                     after == ReturnAnswers(didToCallMap', activeCallsMap',
                                            call_records', r.assignedDID)
                 IN  /\ after = {<<TRUE, r.originalANI, r.originalDNIS>>}
                     /\ mu.op = "none" => after = before ]_vars

\* C9: a return call is refused only when its DID resolves to no record, in
\* memory or in the table (none there, or the read failed); one whose DID
\* resolves succeeds with the record's
\* originalANI and originalDNIS whatever its ani2, and what it writes (the
\* status of the call becomes RETURNED, nothing else) does not depend on ani2.
C9_AniMismatchIgnored ==
    [][ /\ (/\ mu.op = "none"
            /\ lastResp' # lastResp
            /\ lastResp'.op = "return"
            /\ lastResp'.status = "error")
           => /\ cleanString(lastResp'.did) \notin DOMAIN didToCallMap
              /\ \/ getCallRecordByDID(call_records, cleanString(lastResp'.did)) = {}
                 \/ \E a \in ReturnANIs, d \in ReturnDIDs : ReturnReadFails(a, d)
        /\ ReturnUpdate
           => /\ lastResp'.status = "success"
              /\ lastResp'.aniToSend = mu.record.originalANI
              /\ lastResp'.dnisToSend = mu.record.originalDNIS
              /\ \A n \in call_records' :
                    \E r \in call_records :
                        /\ n.callID = r.callID
                        /\ n = [r EXCEPT !.status = IF r.callID = mu.callID
                                                    THEN CallStateReturned
                                                    ELSE r.status]
              /\ UNCHANGED <<dids, activeCallsMap, didToCallMap>> ]_vars

\* A return call answered with the record's numbers although its ani2 is not
\* the record's originalDNIS.
C9_Witness ==
    /\ Succeeded(lastResp, "return")
    /\ lastResp.callID \in DOMAIN activeCallsMap
    /\ lastResp.ani # lastResp.dnisToSend
    /\ cleanString(lastResp.ani) # lastResp.dnisToSend
    /\ lastResp.aniToSend = activeCallsMap[lastResp.callID].originalANI
    /\ lastResp.dnisToSend = activeCallsMap[lastResp.callID].originalDNIS
    /\ \E r \in call_records :
          r.callID = lastResp.callID /\ r.status = CallStateReturned

\* C10: when ProcessIncomingCall returns for a call id that an earlier call
\* has bound to another DID, the ledger holds exactly one record for the call
\* id, with the DID this call returned and the status this call wrote
\* (FORWARDED).
C10_UpsertByCallID ==
    [][ (/\ IncomingForward
         /\ \E d \in DOMAIN didToCallMap : d # mu.did /\ didToCallMap[d] = mu.callID) =>
          /\ Cardinality(RowsOf(call_records', mu.callID)) = 1
          /\ \A n \in RowsOf(call_records', mu.callID) :
                /\ n.assignedDID = lastResp'.didAssigned
                /\ n.status = CallStateForwarded ]_vars

\* C11: a call whose ledger status is COMPLETED or FAILED keeps that status
\* through every step of every handler, of the cleanup and of a restart.
C11_TerminalAbsorbing ==
    [][ \A r \in call_records :
            r.status \in Terminal
            => \A n \in RowsOf(call_records', r.callID) : n.status = r.status ]_vars

\* C12: a return call whose DID is not in didToCallMap and for which the
\* ledger holds a non-terminal record within the window either succeeds, and
\* then both maps hold that record (call id -> record, DID -> call id), or,
\* the read having failed, is refused; it is refused when the ledger holds no
\* such record; and a refused one leaves both maps and both tables unchanged.
C12_OnDemandRepair ==
    [][ LET refused == /\ lastResp' # lastResp
                       /\ lastResp'.op = "return"
                       /\ lastResp'.status = "error"
            raw == IF mu'.op = "return" THEN mu'.did ELSE lastResp'.did
            ani2 == IF mu'.op = "return" THEN mu'.ani ELSE lastResp'.ani
            did == cleanString(raw)
            hits == {r \in call_records : r.assignedDID = did /\ IsActiveRow(r)}
        IN  (/\ mu.op = "none"
             /\ mu'.op = "return" \/ refused
             /\ did \notin DOMAIN didToCallMap)
            => /\ mu'.op = "return"
                  => /\ \E r \in hits : ScanRecord(r) = mu'.record
                     /\ did \in DOMAIN didToCallMap'
                     /\ didToCallMap'[did] = mu'.callID
                     /\ mu'.callID \in DOMAIN activeCallsMap'
                     /\ activeCallsMap'[mu'.callID] = mu'.record
               /\ mu'.op = "none"
                  => /\ lastResp'.error = "no active call for DID"
                     /\ hits = {} \/ ~ReturnResolve(ani2, raw)
                     /\ UNCHANGED <<dids, call_records, activeCallsMap,
                                    didToCallMap>> ]_vars

\* The handler is past a lookup that went to the ledger: the ledger holds
\* two records that a restore would have put in memory, memory holds only
\* the one the return call asked for.
C12_Witness ==
    /\ mu.op = "return"
    /\ DOMAIN didToCallMap = {cleanString(mu.did)}
    /\ DOMAIN activeCallsMap = {mu.callID}
    /\ activeCallsMap[mu.callID] = mu.record
    /\ didToCallMap[cleanString(mu.did)] = mu.callID
    /\ mu.did # cleanString(mu.did)
    /\ \E r1, r2 \in call_records :
          /\ IsActiveRow(r1) /\ IsActiveRow(r2)
          /\ r1.assignedDID # r2.assignedDID
          /\ mu.record = ScanRecord(r1)

C14_MapsConsistent ==
    /\ \A d \in DOMAIN didToCallMap :
          /\ didToCallMap[d] \in DOMAIN activeCallsMap
          /\ activeCallsMap[didToCallMap[d]].assignedDID = d
    /\ \A c \in DOMAIN activeCallsMap :
          /\ activeCallsMap[c].assignedDID \in DOMAIN didToCallMap
          /\ didToCallMap[activeCallsMap[c].assignedDID] = c

\* C15: where the ledger writes succeed and no handler is in flight, every
\* record of activeCallsMap has a ledger row of its call id whose status is
\* non-terminal.
C15_IndexMirrorsLedger ==
    (hasUpdatedAt /\ mu.op = "none")
    => \A c \in DOMAIN activeCallsMap :
          \E r \in call_records : r.callID = c /\ r.status \in NonTerminal

\* C16: a return call goes on past its lookup only with a call whose ledger
\* rows are all non-terminal and not older than the window, whether the
\* record came from memory or from the ledger.
C16_NoStaleResurrection ==
    [][ (mu.op = "none" /\ mu'.op = "return")
        => \A r \in RowsOf(call_records, mu'.callID) :
              r.status \in NonTerminal /\ r.sinceStart <= TTL ]_vars

\* C17: where the ledger writes succeed, when ProcessIncomingCall returns the
\* ledger has a record of the call id with the ani and dnis of the call, the
\* DID it acquired and status FORWARDED, and that DID is in use with the dnis
\* as destination; when ProcessReturnCall returns, the record of the call it
\* resolved has status RETURNED.
C17_LedgerAfterCalls ==
    [][ hasUpdatedAt =>
          /\ IncomingForward
             => /\ RowsOf(call_records', mu.callID) # {}
                /\ \A n \in RowsOf(call_records', mu.callID) :
                      /\ n.originalANI = mu.ani
                      /\ n.originalDNIS = mu.dnis
                      /\ n.assignedDID = mu.did
                      /\ n.status = CallStateForwarded
                /\ dids'[mu.did].inUse
                /\ dids'[mu.did].destination = mu.dnis
          /\ ReturnUpdate
             => /\ RowsOf(call_records', mu.callID) # {}
                /\ \A n \in RowsOf(call_records', mu.callID) :
                      n.status = CallStateReturned ]_vars

\* C18: the originalANI and originalDNIS of a call id never change, in the
\* record activeCallsMap holds and in the ledger row, through every step of
\* the handlers, of the cleanup and through a restart.
C18_IdentityImmutable ==
    [][ /\ \A c \in DOMAIN activeCallsMap \cap DOMAIN activeCallsMap' :
              /\ activeCallsMap'[c].originalANI = activeCallsMap[c].originalANI
              /\ activeCallsMap'[c].originalDNIS = activeCallsMap[c].originalDNIS
        /\ \A r \in call_records :
              \A n \in RowsOf(call_records', r.callID) :
                  /\ n.originalANI = r.originalANI
                  /\ n.originalDNIS = r.originalDNIS ]_vars

\* C19: the active_calls count a statistics query reports equals the number
\* of calls it lists under memory_calls.
C19_StatsSnapshot ==
    stats.pc = "done" => stats.active_calls = Cardinality(stats.memory_calls)

\* C20: every DID that is in use is the assignedDID of a record in
\* activeCallsMap or of a ledger row with a non-terminal status.
C20_NoDIDLeak ==
    \A d \in DOMAIN dids :
        dids[d].inUse
        => \/ \E c \in DOMAIN activeCallsMap : activeCallsMap[c].assignedDID = d
           \/ \E r \in call_records : r.status \in NonTerminal /\ r.assignedDID = d

\* C21: a run of the cleanup changes the status of no ledger record whose
\* start_time is within the TTL, and changes neither inUse nor destination of
\* a DID that is the assignedDID of a ledger record with a non-terminal status.
C21_ReaperSparesLive ==
    [][ /\ CleanupTick
           => \A r \in call_records :
                 r.sinceStart <= TTL
                 => \A n \in RowsOf(call_records', r.callID) : n.status = r.status
        /\ CleanupRelease
           => \A d \in DOMAIN dids :
                 (\E r \in call_records :
                     r.status \in NonTerminal /\ r.assignedDID = d)
                 => dids'[d] = dids[d] ]_vars

\* C22: no step of ProcessReturnCall changes inUse or destination of a DID or
\* takes an entry out of either map, and when it returns success a second
\* return call for the same DID would succeed with the same aniToSend and
\* dnisToSend.
C22_ReturnKeepsBinding ==
    [][ LET refused == /\ lastResp' # lastResp
                       /\ lastResp'.op = "return"
                       /\ lastResp'.status = "error"
        IN  /\ (\/ mu.op = "none" /\ (mu'.op = "return" \/ refused)
                \/ ReturnUpdate)
               => /\ dids' = dids
                  /\ \A d \in DOMAIN didToCallMap :
                        d \in DOMAIN didToCallMap' /\ didToCallMap'[d] = didToCallMap[d]
                  /\ \A c \in DOMAIN activeCallsMap :
                        c \in DOMAIN activeCallsMap' /\ activeCallsMap'[c] = activeCallsMap[c]
            /\ ReturnUpdate
               => /\ lastResp'.status = "success"
                  /\ ReturnAnswers(didToCallMap', activeCallsMap', call_records', mu.did)
                       = {<<TRUE, lastResp'.aniToSend, lastResp'.dnisToSend>>} ]_vars

\* A second return call for a DID, taken up right after the first was
\* answered, has resolved to the record with the numbers the first answered.
C22_Witness ==
    /\ Succeeded(lastResp, "return")
    /\ mu.op = "return"
    /\ mu.did = lastResp.did
    /\ mu.record.originalANI = lastResp.aniToSend
    /\ mu.record.originalDNIS = lastResp.dnisToSend
    /\ dids[cleanString(mu.did)].inUse
    /\ \E r \in call_records :
          r.callID = mu.callID /\ r.status = CallStateReturned

====
